---- MODULE Spec2Model ----
(***************************************************************************)
(* CalendarSyncBridge: CalendarSyncManager.sync together with the two      *)
(* calendar clients (YandexCalendarClient, GoogleCalendarClient) of        *)
(* src/main.py.                                                            *)
(*                                                                         *)
(* A datetime is a record [date, time, aware, off]: date is the proleptic  *)
(* Gregorian ordinal of datetime.date, time is <<hour, minute, second,     *)
(* microsecond>>, aware says whether tzinfo is set and off is the UTC      *)
(* offset in hours.  An ISO-8601 string is the record of the fields it     *)
(* prints: [year, month, day, hour, minute, second, microsecond, off].     *)
(* An identity key f"{name}/{start_iso}" is the pair <<name, start_iso>>.  *)
(***************************************************************************)
EXTENDS Integers, Sequences, FiniteSets, TLC

VARIABLES
    today,                \* datetime.now(utc).date() read by the constructor
    past_days,            \* config.past_days
    future_days,          \* config.future_days
    yandex_calname_found, \* the Yandex principal has a calendar named config.yandex_calname
    google_calname_found, \* the Google account has a calendar config.google_calname
    time_limit,           \* self.time_limit
    time_limit_future,    \* self.time_limit_future
    yandex,               \* events held by the Yandex calendar, oldest first
    google,               \* events held by the Google calendar, oldest first
    pc,                   \* position of the caller inside sync()
    runs,                 \* number of sync() calls started
    yandex_events,        \* local of sync()
    google_events,        \* local of sync()
    all_events,           \* local of sync()
    yandex_missing_keys,  \* local of sync()
    google_missing_keys,  \* local of sync()
    todo,                 \* keys the running for loop has not visited yet
    calls,                \* add_event calls made by the current run, in order
    skipped,              \* "skipped ... out of range" lines printed by the run
    raised,               \* the client call that raised in the current run
    writes,               \* number of events the sync() calls have created
    outcomes              \* how each finished run ended, oldest first

vars == <<today, past_days, future_days, yandex_calname_found,
          google_calname_found, time_limit, time_limit_future,
          yandex, google, pc, runs, yandex_events, google_events, all_events,
          yandex_missing_keys, google_missing_keys, todo, calls, skipped,
          raised, writes, outcomes>>

config_vars == <<today, past_days, future_days, yandex_calname_found,
                google_calname_found>>
window_vars == <<time_limit, time_limit_future>>
local_vars == <<yandex_events, google_events, all_events,
                yandex_missing_keys, google_missing_keys>>

-----------------------------------------------------------------------------
(* Bounds of the model.                                                    *)

\* most events the two calendars hold initially, together
MaxEvents == 3
\* the events the two calendars hold initially, together, and the sync() calls
\* made on them are at most MaxEventsAndRuns in total: calendars with
\* MaxEvents events are followed for two calls, and each event fewer allows
\* one call more
MaxEventsAndRuns == 5
\* largest past_days tried by the window calculation, besides the default
MaxPastDays == 2
\* largest future_days tried by the window calculation, besides the default
MaxFutureDays == 2
\* the window calculation is tried on DaySpan + 1 consecutive days from each
\* of its base days
DaySpan == 6
\* most events the two calendars hold, together, when the construction of the
\* manager is followed from its start
MaxConstructEvents == 1
\* most days the clock advances between the sync() calls on one manager
MaxClockDays == 1

-----------------------------------------------------------------------------
(* datetime.date: ordinals and calendar fields.                            *)

is_leap(y) == y % 4 = 0 /\ (y % 100 # 0 \/ y % 400 = 0)

days_in_month(y, m) ==
    IF m = 2 THEN (IF is_leap(y) THEN 29 ELSE 28)
    ELSE IF m \in {4, 6, 9, 11} THEN 30 ELSE 31

RECURSIVE days_before_month(_, _)
days_before_month(y, m) ==
    IF m = 1 THEN 0 ELSE days_before_month(y, m - 1) + days_in_month(y, m - 1)

days_before_year(y) ==
    LET y1 == y - 1
    IN  y1 * 365 + (y1 \div 4) - (y1 \div 100) + (y1 \div 400)

\* date(y, m, d).toordinal()
ymd2ord(y, m, d) == days_before_year(y) + days_before_month(y, m) + d

\* date.fromordinal(n) as <<year, month, day>>
ord2ymd(n) ==
    LET n0   == n - 1
        n400 == n0 \div 146097
        r400 == n0 % 146097
        n100 == r400 \div 36524
        r100 == r400 % 36524
        n4   == r100 \div 1461
        r4   == r100 % 1461
        n1   == r4 \div 365
        r1   == r4 % 365
        year == n400 * 400 + 1 + n100 * 100 + n4 * 4 + n1
    IN  IF n1 = 4 \/ n100 = 4
        THEN <<year - 1, 12, 31>>
        ELSE LET m0     == (r1 + 50) \div 32
                 before == days_before_month(year, m0)
                 month  == IF before > r1 THEN m0 - 1 ELSE m0
                 prec   == days_before_month(year, month)
             IN  <<year, month, r1 - prec + 1>>

-----------------------------------------------------------------------------
(* datetime values.                                                        *)

\* datetime.time.min
time_min == <<0, 0, 0, 0>>
\* datetime.time.max
time_max == <<23, 59, 59, 999999>>

\* datetime.combine(d, t).replace(tzinfo=utc)
utc_datetime(d, t) == [date |-> d, time |-> t, aware |-> TRUE, off |-> 0]

\* a naive datetime
naive_datetime(d, t) == [date |-> d, time |-> t, aware |-> FALSE, off |-> 0]

\* an aware datetime at UTC offset off (hours)
offset_datetime(d, t, o) == [date |-> d, time |-> t, aware |-> TRUE, off |-> o]

\* dt.replace(tzinfo=utc) for a naive dt, dt.astimezone(utc) for an aware one
to_utc(dt) ==
    IF ~dt.aware
    THEN utc_datetime(dt.date, dt.time)
    ELSE LET h == dt.time[1] - dt.off
             t(hh) == <<hh, dt.time[2], dt.time[3], dt.time[4]>>
         IN  IF h < 0 THEN utc_datetime(dt.date - 1, t(h + 24))
             ELSE IF h > 23 THEN utc_datetime(dt.date + 1, t(h - 24))
             ELSE utc_datetime(dt.date, t(h))

time_lt(s, t) ==
    \/ s[1] < t[1]
    \/ s[1] = t[1] /\ s[2] < t[2]
    \/ s[1] = t[1] /\ s[2] = t[2] /\ s[3] < t[3]
    \/ s[1] = t[1] /\ s[2] = t[2] /\ s[3] = t[3] /\ s[4] < t[4]

\* a < b for two aware datetimes
dt_lt(a, b) ==
    LET ua == to_utc(a)
        ub == to_utc(b)
    IN  \/ ua.date < ub.date
        \/ ua.date = ub.date /\ time_lt(ua.time, ub.time)

\* dt.isoformat()
isoformat(dt) ==
    LET ymd == ord2ymd(dt.date)
    IN  [year |-> ymd[1], month |-> ymd[2], day |-> ymd[3],
         hour |-> dt.time[1], minute |-> dt.time[2], second |-> dt.time[3],
         microsecond |-> dt.time[4], off |-> dt.off]

\* dt.isoformat(timespec="seconds"), read back as the instant it denotes
isoformat_seconds(dt) ==
    [dt EXCEPT !.time = <<dt.time[1], dt.time[2], dt.time[3], 0>>]

\* datetime.fromisoformat(s) for a string that carries an offset
fromisoformat(s) ==
    offset_datetime(ymd2ord(s.year, s.month, s.day),
                    <<s.hour, s.minute, s.second, s.microsecond>>, s.off)

-----------------------------------------------------------------------------
(* CalendarSyncManager.__init__: the time window.                          *)

\* self.time_limit
compute_time_limit(d, past) == utc_datetime(d - past, time_min)

\* slip: the ceiling is taken at the start of its day
compute_time_limit_future_start_of_day(d, future) == utc_datetime(d + future, time_min)

\* self.time_limit_future
compute_time_limit_future(d, future) == utc_datetime(d + future, time_max)

-----------------------------------------------------------------------------
(* The two remote calendars.  A stored event is [name, description, start, *)
(* end] with start and end datetimes as the provider holds them.           *)

\* Config.past_days default
default_past_days == 7
\* Config.future_days default
default_future_days == 30

\* the day the manager of the synchronisation runs is constructed
BaseDay == ymd2ord(2024, 6, 15)

stored_event(n, d, s, e) == [name |-> n, description |-> d, start |-> s, end |-> e]

\* start before the default window's floor (2024-06-08), end inside the window
SlotBefore == <<utc_datetime(BaseDay - 8, <<12, 0, 0, 0>>),
                utc_datetime(BaseDay - 7, <<12, 0, 0, 0>>)>>
\* start and end inside the window, in UTC
SlotIn == <<utc_datetime(BaseDay, <<9, 0, 0, 0>>),
            utc_datetime(BaseDay, <<10, 0, 0, 0>>)>>
\* the same start instant as SlotIn written at +03:00, another end
SlotOffset == <<offset_datetime(BaseDay, <<12, 0, 0, 0>>, 3),
                offset_datetime(BaseDay, <<14, 0, 0, 0>>, 3)>>
\* the same start as SlotIn without timezone information, another end
SlotNaive == <<naive_datetime(BaseDay, <<9, 0, 0, 0>>),
               naive_datetime(BaseDay, <<9, 30, 0, 0>>)>>
\* start in the last second of the default window's ceiling day (2024-07-15),
\* end on the next day
SlotCeiling == <<utc_datetime(BaseDay + default_future_days, <<23, 59, 59, 0>>),
                 utc_datetime(BaseDay + default_future_days + 1, <<0, 30, 0, 0>>)>>
\* entirely before the window
SlotOld == <<utc_datetime(BaseDay - 40, <<9, 0, 0, 0>>),
             utc_datetime(BaseDay - 40, <<10, 0, 0, 0>>)>>

\* events either calendar may hold initially: they give five identity keys
\* inside the fetched range ("X" and "M" starting before the window, "X" and
\* "M" starting inside it, "X" starting in the last second of the ceiling
\* day), colliding records and one event out of range
CommonUniverse ==
    {stored_event("X", "",  SlotBefore[1], SlotBefore[2]),
     stored_event("M", "d", SlotBefore[1], SlotBefore[2]),
     stored_event("X", "",  SlotIn[1], SlotIn[2]),
     stored_event("X", "d", SlotIn[1], SlotIn[2]),
     stored_event("M", "",  SlotIn[1], SlotIn[2]),
     stored_event("X", "d", SlotOffset[1], SlotOffset[2]),
     stored_event("X", "",  SlotCeiling[1], SlotCeiling[2]),
     stored_event("X", "",  SlotOld[1], SlotOld[2])}

\* events the Google calendar may hold initially (Google always reports an offset)
GoogleUniverse == CommonUniverse

\* events the Yandex calendar may hold initially
YandexUniverse ==
    CommonUniverse \cup {stored_event("X", "", SlotNaive[1], SlotNaive[2])}

SeqsUpTo(S, n) == UNION {[1..m -> S] : m \in 0..n}

\* the events of a calendar that a time-range query [lo, hi] returns: those
\* that start before hi and end after lo, in the calendar's order
time_range(store, lo, hi) ==
    SelectSeq(store, LAMBDA e : dt_lt(e.start, hi) /\ dt_lt(lo, e.end))

\* the dict a get_events loop builds from its <<key, value>> assignments, in
\* order: a later assignment overwrites an earlier one to the same key
events_data(entries) ==
    LET keys    == {entries[i][1] : i \in 1..Len(entries)}
        last(k) == CHOOSE i \in 1..Len(entries) :
                       /\ entries[i][1] = k
                       /\ \A j \in (i + 1)..Len(entries) : entries[j][1] # k
    IN  [k \in keys |-> entries[last(k)][2]]

-----------------------------------------------------------------------------
(* YandexCalendarClient.                                                   *)

\* slip: the start is used in the timezone the provider reports
yandex_utc_unconverted(dt) == dt

\* the UTC normalisation of get_events (replace / astimezone)
yandex_utc(dt) == to_utc(dt)

YandexGetEvents(store, start, end) ==
    LET items    == time_range(store, start, end)
        key(e)   == <<e.name, isoformat(yandex_utc(e.start))>>
        value(e) == [name        |-> e.name,
                     description |-> e.description,
                     start       |-> isoformat(yandex_utc(e.start)),
                     end         |-> isoformat(yandex_utc(e.end))]
    IN  events_data([i \in 1..Len(items) |-> <<key(items[i]), value(items[i])>>])

\* slip: the event is written as an all-day event, its time of day dropped
YandexAddEvent_date_only(store, event_data) ==
    Append(store, stored_event(event_data.name, event_data.description,
                               utc_datetime(fromisoformat(event_data.start).date, time_min),
                               fromisoformat(event_data.end)))

\* slip: the calendar is overwritten with the new event
YandexAddEvent_overwrite(store, event_data) ==
    <<stored_event(event_data.name, event_data.description,
                   fromisoformat(event_data.start),
                   fromisoformat(event_data.end))>>

YandexAddEvent(store, event_data) ==
    Append(store, stored_event(event_data.name, event_data.description,
                               fromisoformat(event_data.start),
                               fromisoformat(event_data.end)))

-----------------------------------------------------------------------------
(* GoogleCalendarClient.                                                   *)

\* functions.convert_iso_timezone(s, timezone.utc)
convert_iso_timezone(dt) == isoformat(to_utc(dt))

GoogleGetEvents(store, start, end) ==
    LET items    == time_range(store, isoformat_seconds(start), isoformat_seconds(end))
        key(e)   == <<e.name, convert_iso_timezone(e.start)>>
        value(e) == [name        |-> e.name,
                     description |-> e.description,
                     start       |-> convert_iso_timezone(e.start),
                     end         |-> convert_iso_timezone(e.end)]
    IN  events_data([i \in 1..Len(items) |-> <<key(items[i]), value(items[i])>>])

\* slip: only the ceiling is tested
out_of_range_ceiling_only(start_dt, limit, limit_future) ==
    dt_lt(limit_future, start_dt)

\* the out-of-range test of add_event
out_of_range(start_dt, limit, limit_future) ==
    dt_lt(start_dt, limit) \/ dt_lt(limit_future, start_dt)

\* slip: the event body takes its start from event_data["end"]
GoogleAddEvent_end_as_start(store, event_data, limit, limit_future) ==
    LET start_dt == fromisoformat(event_data.start)
    IN  IF out_of_range(start_dt, limit, limit_future)
        THEN [calendar |-> store,
              printed  |-> <<[name |-> event_data.name, start |-> start_dt]>>]
        ELSE [calendar |-> Append(store,
                              stored_event(event_data.name, event_data.description,
                                           fromisoformat(event_data.end),
                                           fromisoformat(event_data.end))),
              printed  |-> <<>>]

\* add_event: the calendar afterwards and the lines printed
GoogleAddEvent(store, event_data, limit, limit_future) ==
    LET start_dt == fromisoformat(event_data.start)
    IN  IF out_of_range(start_dt, limit, limit_future)
        THEN [calendar |-> store,
              printed  |-> <<[name |-> event_data.name, start |-> start_dt]>>]
        ELSE [calendar |-> Append(store,
                              stored_event(event_data.name, event_data.description,
                                           fromisoformat(event_data.start),
                                           fromisoformat(event_data.end))),
              printed  |-> <<>>]

-----------------------------------------------------------------------------
(* CalendarSyncManager.sync.                                               *)

\* slip: the union is built from the Google map alone
merge_second_only(a, b) == b

\* slip: {**b, **a}, the first side wins
merge_first_wins(a, b) ==
    [k \in (DOMAIN a) \cup (DOMAIN b) |-> IF k \in DOMAIN a THEN a[k] ELSE b[k]]

\* {**a, **b}
merge(a, b) ==
    [k \in (DOMAIN a) \cup (DOMAIN b) |-> IF k \in DOMAIN b THEN b[k] ELSE a[k]]

\* slip: the difference is taken the wrong way round
missing_keys_swapped(all, own) == (DOMAIN own) \ (DOMAIN all)

\* set(all.keys()) - set(own.keys())
missing_keys(all, own) == (DOMAIN all) \ (DOMAIN own)

empty_dict == <<>>

add_call(client, key, event_data) ==
    [client |-> client, key |-> key, event_data |-> event_data]

-----------------------------------------------------------------------------
(* A manager constructed on BaseDay with the default configuration and the *)
(* sync() calls made on it.  main() builds a manager and calls sync() on   *)
(* it once; the program may be started again when it has ended, and a      *)
(* caller that keeps the manager may call sync() on it again.              *)

\* time_limit and time_limit_future before __init__ has assigned them
unset_datetime == utc_datetime(0, time_min)

Init ==
    /\ today = BaseDay
    /\ past_days = default_past_days
    /\ future_days = default_future_days
    /\ yandex_calname_found = TRUE
    /\ google_calname_found = TRUE
    /\ time_limit = compute_time_limit(today, past_days)
    /\ time_limit_future = compute_time_limit_future(today, future_days)
    /\ yandex \in SeqsUpTo(YandexUniverse, MaxEvents)
    /\ google \in SeqsUpTo(GoogleUniverse, MaxEvents - Len(yandex))
    /\ pc = "idle"
    /\ runs = 0
    /\ yandex_events = empty_dict
    /\ google_events = empty_dict
    /\ all_events = empty_dict
    /\ yandex_missing_keys = {}
    /\ google_missing_keys = {}
    /\ todo = {}
    /\ calls = <<>>
    /\ skipped = <<>>
    /\ raised = "none"
    /\ writes = 0
    /\ outcomes = <<>>

\* the number of events the two calendars held before the first sync() call
InitialEvents == Len(yandex) + Len(google) - writes

\* the number of sync() calls the calendars are followed for
RunLimit == MaxEventsAndRuns - InitialEvents

\* sync() may be called on a constructed manager when no call is running
CanCall == pc \in {"idle", "done", "failed"} /\ runs < RunLimit

\* the program has ended: sync() returned or an exception left main()
Ended == pc \in {"done", "failed", "construct_failed", "config_failed"}

\* main() is started again and Config() loads the settings; the objects of
\* the earlier process are gone
main ==
    /\ Ended
    /\ runs < RunLimit
    /\ pc' = "new"
    /\ time_limit' = unset_datetime
    /\ time_limit_future' = unset_datetime
    /\ yandex_events' = empty_dict
    /\ google_events' = empty_dict
    /\ all_events' = empty_dict
    /\ yandex_missing_keys' = {}
    /\ google_missing_keys' = {}
    /\ todo' = {}
    /\ calls' = <<>>
    /\ skipped' = <<>>
    /\ raised' = "none"
    /\ UNCHANGED <<config_vars, yandex, google, runs, writes, outcomes>>

\* main() is started again and Config() raises: a required setting is missing
\* or a value does not validate
ConfigFails ==
    /\ Ended
    /\ runs < RunLimit
    /\ pc' = "config_failed"
    /\ time_limit' = unset_datetime
    /\ time_limit_future' = unset_datetime
    /\ yandex_events' = empty_dict
    /\ google_events' = empty_dict
    /\ all_events' = empty_dict
    /\ yandex_missing_keys' = {}
    /\ google_missing_keys' = {}
    /\ todo' = {}
    /\ calls' = <<>>
    /\ skipped' = <<>>
    /\ raised' = "config_validation"
    /\ UNCHANGED <<config_vars, yandex, google, runs, writes, outcomes>>

\* CalendarSyncManager.__init__: YandexCalendarClient finds its calendar,
\* GoogleCalendarClient authenticates, and the two limits are computed
Construct ==
    /\ pc = "new"
    /\ yandex_calname_found
    /\ time_limit' = compute_time_limit(today, past_days)
    /\ time_limit_future' = compute_time_limit_future(today, future_days)
    /\ pc' = "idle"
    /\ UNCHANGED <<config_vars, yandex, google, runs, local_vars, todo, calls,
                   skipped, raised, writes, outcomes>>

\* what can raise inside CalendarSyncManager.__init__, in the order of the
\* code: client.principal(), principal.calendars(), the ValueError of
\* _get_calendar_by_name, and GoogleCalendarClient._authenticate (pickle.load,
\* creds.refresh, the login flow, pickle.dump, build)
ConstructErrors ==
    {"yandex_principal", "yandex_calendars", "calendar_not_found",
     "google_authenticate"}

\* CalendarSyncManager.__init__ raises: no manager is built
ConstructFails ==
    /\ pc = "new"
    /\ \E error \in ConstructErrors :
          /\ error = "calendar_not_found" => ~yandex_calname_found
          /\ error = "google_authenticate" => yandex_calname_found
          /\ raised' = error
    /\ pc' = "construct_failed"
    /\ UNCHANGED <<config_vars, window_vars, yandex, google, runs, local_vars,
                   todo, calls, skipped, writes, outcomes>>

\* sync() is entered and yandex_client.get_events returns
FetchYandex ==
    /\ CanCall
    /\ runs' = runs + 1
    /\ yandex_events' = YandexGetEvents(yandex, time_limit, time_limit_future)
    /\ google_events' = empty_dict
    /\ all_events' = empty_dict
    /\ yandex_missing_keys' = {}
    /\ google_missing_keys' = {}
    /\ todo' = {}
    /\ calls' = <<>>
    /\ skipped' = <<>>
    /\ raised' = "none"
    /\ pc' = "fetch_google"
    /\ UNCHANGED <<config_vars, window_vars, yandex, google, writes, outcomes>>

\* sync() is entered and yandex_client.get_events raises
FetchYandexFails ==
    /\ CanCall
    /\ runs' = runs + 1
    /\ yandex_events' = empty_dict
    /\ google_events' = empty_dict
    /\ all_events' = empty_dict
    /\ yandex_missing_keys' = {}
    /\ google_missing_keys' = {}
    /\ todo' = {}
    /\ calls' = <<>>
    /\ skipped' = <<>>
    /\ raised' = "yandex_get_events"
    /\ pc' = "failed"
    /\ outcomes' = Append(outcomes, "failed")
    /\ UNCHANGED <<config_vars, window_vars, yandex, google, writes>>

\* slip: the Google loop is entered right after the fetches, before any
\* Yandex append
FetchGoogle_google_loop_first ==
    /\ pc = "fetch_google"
    /\ google_calname_found
    /\ google_events' = GoogleGetEvents(google, time_limit, time_limit_future)
    /\ all_events' = merge(yandex_events, google_events')
    /\ yandex_missing_keys' = missing_keys(all_events', yandex_events)
    /\ google_missing_keys' = missing_keys(all_events', google_events')
    /\ todo' = google_missing_keys'
    /\ pc' = "add_google"
    /\ UNCHANGED <<config_vars, window_vars, yandex, google, runs,
                   yandex_events, calls, skipped, raised, writes, outcomes>>

\* google_client.get_events returns; the union and the missing keys are computed
FetchGoogle ==
    /\ pc = "fetch_google"
    /\ google_calname_found
    /\ google_events' = GoogleGetEvents(google, time_limit, time_limit_future)
    /\ all_events' = merge(yandex_events, google_events')
    /\ yandex_missing_keys' = missing_keys(all_events', yandex_events)
    /\ google_missing_keys' = missing_keys(all_events', google_events')
    /\ todo' = yandex_missing_keys'
    /\ pc' = "add_yandex"
    /\ UNCHANGED <<config_vars, window_vars, yandex, google, runs,
                   yandex_events, calls, skipped, raised, writes, outcomes>>

\* slip: the error of google_client.get_events is swallowed and the run goes on
\* with an empty Google map
FetchGoogleFails_swallowed ==
    /\ pc = "fetch_google"
    /\ raised' = "google_get_events"
    /\ google_events' = empty_dict
    /\ all_events' = merge(yandex_events, google_events')
    /\ yandex_missing_keys' = missing_keys(all_events', yandex_events)
    /\ google_missing_keys' = missing_keys(all_events', google_events')
    /\ todo' = yandex_missing_keys'
    /\ pc' = "add_yandex"
    /\ UNCHANGED <<config_vars, window_vars, yandex, google, runs,
                   yandex_events, calls, skipped, writes, outcomes>>

\* google_client.get_events raises
FetchGoogleFails ==
    /\ pc = "fetch_google"
    /\ raised' = "google_get_events"
    /\ pc' = "failed"
    /\ outcomes' = Append(outcomes, "failed")
    /\ UNCHANGED <<config_vars, window_vars, yandex, google, runs, local_vars,
                   todo, calls, skipped, writes>>

\* one iteration of "for event_key in yandex_missing_keys"
AddYandex ==
    /\ pc = "add_yandex"
    /\ \E event_key \in todo :
          LET event_data == all_events[event_key]
          IN  /\ yandex' = YandexAddEvent(yandex, event_data)
              /\ calls' = Append(calls, add_call("yandex", event_key, event_data))
              /\ todo' = todo \ {event_key}
    /\ writes' = writes + Len(yandex') - Len(yandex)
    /\ UNCHANGED <<config_vars, window_vars, google, pc, runs, local_vars,
                   skipped, raised, outcomes>>

\* slip: the error of yandex_client.add_event is caught and the loop goes on
AddYandexFails_continue ==
    /\ pc = "add_yandex"
    /\ \E event_key \in todo :
          /\ calls' = Append(calls, add_call("yandex", event_key, all_events[event_key]))
          /\ todo' = todo \ {event_key}
    /\ raised' = "yandex_add_event"
    /\ UNCHANGED <<config_vars, window_vars, yandex, google, pc, runs, local_vars,
                   skipped, writes, outcomes>>

\* yandex_client.add_event raises
AddYandexFails ==
    /\ pc = "add_yandex"
    /\ \E event_key \in todo :
          /\ calls' = Append(calls, add_call("yandex", event_key, all_events[event_key]))
          /\ todo' = todo \ {event_key}
    /\ raised' = "yandex_add_event"
    /\ pc' = "failed"
    /\ outcomes' = Append(outcomes, "failed")
    /\ UNCHANGED <<config_vars, window_vars, yandex, google, runs, local_vars,
                   skipped, writes>>

\* the Yandex loop is exhausted and the Google loop begins
BeginGoogle ==
    /\ pc = "add_yandex"
    /\ todo = {}
    /\ todo' = google_missing_keys
    /\ pc' = "add_google"
    /\ UNCHANGED <<config_vars, window_vars, yandex, google, runs, local_vars,
                   calls, skipped, raised, writes, outcomes>>

\* slip: the Google loop stops after its first iteration
AddGoogle_break ==
    /\ pc = "add_google"
    /\ \E event_key \in todo :
          LET event_data == all_events[event_key]
              result     == GoogleAddEvent(google, event_data, time_limit,
                                           time_limit_future)
          IN  /\ google' = result.calendar
              /\ skipped' = skipped \o result.printed
              /\ calls' = Append(calls, add_call("google", event_key, event_data))
              /\ todo' = {}
    /\ writes' = writes + Len(google') - Len(google)
    /\ UNCHANGED <<config_vars, window_vars, yandex, pc, runs, local_vars,
                   raised, outcomes>>

\* one iteration of "for event_key in google_missing_keys"
AddGoogle ==
    /\ pc = "add_google"
    /\ \E event_key \in todo :
          LET event_data == all_events[event_key]
              result     == GoogleAddEvent(google, event_data, time_limit,
                                           time_limit_future)
          IN  /\ google' = result.calendar
              /\ skipped' = skipped \o result.printed
              /\ calls' = Append(calls, add_call("google", event_key, event_data))
              /\ todo' = todo \ {event_key}
    /\ writes' = writes + Len(google') - Len(google)
    /\ UNCHANGED <<config_vars, window_vars, yandex, pc, runs, local_vars,
                   raised, outcomes>>

\* the insert request of google_client.add_event raises
AddGoogleFails ==
    /\ pc = "add_google"
    /\ \E event_key \in todo :
          LET event_data == all_events[event_key]
          IN  /\ ~out_of_range(fromisoformat(event_data.start), time_limit,
                               time_limit_future)
              /\ calls' = Append(calls, add_call("google", event_key, event_data))
              /\ todo' = todo \ {event_key}
    /\ raised' = "google_add_event"
    /\ pc' = "failed"
    /\ outcomes' = Append(outcomes, "failed")
    /\ UNCHANGED <<config_vars, window_vars, yandex, google, runs, local_vars,
                   skipped, writes>>

\* the Google loop is exhausted and sync() returns
Return ==
    /\ pc = "add_google"
    /\ todo = {}
    /\ pc' = "done"
    /\ outcomes' = Append(outcomes, "done")
    /\ UNCHANGED <<config_vars, window_vars, yandex, google, runs, local_vars,
                   todo, calls, skipped, raised, writes>>

Next ==
    \/ main
    \/ ConfigFails
    \/ Construct
    \/ ConstructFails
    \/ FetchYandex
    \/ FetchYandexFails
    \/ FetchGoogle
    \/ FetchGoogleFails
    \/ AddYandex
    \/ AddYandexFails
    \/ BeginGoogle
    \/ AddGoogle
    \/ AddGoogleFails
    \/ Return

Spec == Init /\ [][Next]_vars

-----------------------------------------------------------------------------
(* The window calculation of the constructor on its own, over a range of   *)
(* dates and offsets.                                                      *)

WindowBaseDays == {ymd2ord(2024, 6, 15), ymd2ord(2024, 2, 24), ymd2ord(2023, 12, 27)}
WindowDays == UNION {b..(b + DaySpan) : b \in WindowBaseDays}
InitWindow ==
    /\ today \in WindowDays
    /\ past_days \in (0..MaxPastDays) \cup {default_past_days}
    /\ future_days \in (0..MaxFutureDays) \cup {default_future_days}
    /\ yandex_calname_found = TRUE
    /\ google_calname_found = TRUE
    /\ time_limit = unset_datetime
    /\ time_limit_future = unset_datetime
    /\ yandex = <<>>
    /\ google = <<>>
    /\ pc = "new"
    /\ runs = 0
    /\ yandex_events = empty_dict
    /\ google_events = empty_dict
    /\ all_events = empty_dict
    /\ yandex_missing_keys = {}
    /\ google_missing_keys = {}
    /\ todo = {}
    /\ calls = <<>>
    /\ skipped = <<>>
    /\ raised = "none"
    /\ writes = 0
    /\ outcomes = <<>>

NextWindow == Construct

SpecWindow == InitWindow /\ [][NextWindow]_vars

-----------------------------------------------------------------------------
(* The construction of the manager followed from its start, with calendar  *)
(* names that may not exist, and the sync() calls made on it.              *)

InitConstruct ==
    /\ today = BaseDay
    /\ past_days = default_past_days
    /\ future_days = default_future_days
    /\ yandex_calname_found \in BOOLEAN
    /\ google_calname_found \in BOOLEAN
    /\ time_limit = unset_datetime
    /\ time_limit_future = unset_datetime
    /\ yandex \in SeqsUpTo(YandexUniverse, MaxConstructEvents)
    /\ google \in SeqsUpTo(GoogleUniverse, MaxConstructEvents - Len(yandex))
    /\ pc = "new"
    /\ runs = 0
    /\ yandex_events = empty_dict
    /\ google_events = empty_dict
    /\ all_events = empty_dict
    /\ yandex_missing_keys = {}
    /\ google_missing_keys = {}
    /\ todo = {}
    /\ calls = <<>>
    /\ skipped = <<>>
    /\ raised = "none"
    /\ writes = 0
    /\ outcomes = <<>>

SpecConstruct == InitConstruct /\ [][Next]_vars

-----------------------------------------------------------------------------
(* The date changes between the construction of a manager and a sync()     *)
(* call on it, or between two runs of the program.                         *)

\* midnight UTC passes while neither the constructor nor sync() is running
Tick ==
    /\ (pc = "idle" \/ Ended)
    /\ today < BaseDay + MaxClockDays
    /\ today' = today + 1
    /\ UNCHANGED <<past_days, future_days, yandex_calname_found,
                   google_calname_found, window_vars, yandex, google, pc, runs,
                   local_vars, todo, calls, skipped, raised, writes, outcomes>>

NextClock ==
    \/ Next
    \/ Tick

SpecClock == Init /\ [][NextClock]_vars

-----------------------------------------------------------------------------
(* Properties of sync().                                                   *)

\* the union and the missing keys of the current run have been computed
Computed ==
    \/ pc \in {"add_yandex", "add_google", "done"}
    \/ pc = "failed" /\ raised \in {"yandex_add_event", "google_add_event"}

\* an earlier sync() call on this manager returned without error
AfterCompletedRun == \E i \in 1..Len(outcomes) : i < runs /\ outcomes[i] = "done"

IsPrefix(s, t) == Len(s) <= Len(t) /\ SubSeq(t, 1, Len(s)) = s

InWindow(dt) == ~dt_lt(dt, time_limit) /\ ~dt_lt(time_limit_future, dt)

\* the events a step appended to a calendar
Appended(old, new) == {new[i] : i \in (Len(old) + 1)..Len(new)}

CallsOf(client, key) ==
    {i \in 1..Len(calls) : calls[i].client = client /\ calls[i].key = key}

InCeilingSecond(dt) ==
    InWindow(dt) /\ ~dt_lt(dt, isoformat_seconds(time_limit_future))

\* a start that keeps its key missing on Google in every run
NeverOnGoogle(dt) == ~InWindow(dt) \/ InCeilingSecond(dt)

C2_WriteRecheckBothSides ==
    [][/\ \A e \in Appended(yandex, yandex') : InWindow(e.start)
       /\ \A e \in Appended(google, google') : InWindow(e.start)]_vars

\* C3: an add_event call on Google for an event whose start is outside the
\* window leaves the Google calendar unchanged, prints the event's name and
\* start, raises nothing and lets the loop go on; no event sync() writes to
\* Google starts outside the window.
C3_WindowFilteredWrite ==
    [][/\ (/\ Len(calls') = Len(calls) + 1
           /\ calls'[Len(calls')].client = "google"
           /\ ~InWindow(fromisoformat(calls'[Len(calls')].event_data.start)))
          => /\ google' = google
             /\ skipped' = Append(skipped,
                    [name  |-> calls'[Len(calls')].event_data.name,
                     start |-> fromisoformat(calls'[Len(calls')].event_data.start)])
             /\ raised' = "none"
             /\ pc' = "add_google"
             /\ todo' = todo \ {calls'[Len(calls')].key}
       /\ \A e \in Appended(google, google') : InWindow(e.start)]_vars

C3_Witness ==
    /\ pc = "done"
    /\ \E i, j \in 1..Len(calls) :
          /\ i < j
          /\ calls[i].client = "google"
          /\ ~InWindow(fromisoformat(calls[i].event_data.start))
          /\ calls[j].client = "google"
          /\ InWindow(fromisoformat(calls[j].event_data.start))
    /\ Len(skipped) = 1
    /\ writes = 1

\* C4: the missing keys of a side are the keys of the union that are not keys
\* of that side's fetched map; a single event on Yandex and none on Google
\* gives google_missing_keys = {its key} and yandex_missing_keys = {}.
C4_MissingSets ==
    Computed
        => /\ yandex_missing_keys =
                {k \in DOMAIN all_events : k \notin DOMAIN yandex_events}
           /\ google_missing_keys =
                {k \in DOMAIN all_events : k \notin DOMAIN google_events}
           /\ (DOMAIN google_events = {} /\ Cardinality(DOMAIN yandex_events) = 1)
                => /\ google_missing_keys = DOMAIN yandex_events
                   /\ yandex_missing_keys = {}

C4_Witness ==
    /\ pc = "add_yandex"
    /\ yandex_missing_keys # {}
    /\ google_missing_keys # {}
    /\ DOMAIN all_events # yandex_missing_keys \cup google_missing_keys

\* C5: when sync() returns, each missing key of a side has had exactly one
\* add_event call on that side, made with the union's record for the key, and
\* no call was made on a side for a key of that side's fetched map.
C5_ExactlyOnce ==
    pc = "done"
        => /\ \A k \in yandex_missing_keys :
                 /\ Cardinality(CallsOf("yandex", k)) = 1
                 /\ \A i \in CallsOf("yandex", k) : calls[i].event_data = all_events[k]
           /\ \A k \in google_missing_keys :
                 /\ Cardinality(CallsOf("google", k)) = 1
                 /\ \A i \in CallsOf("google", k) : calls[i].event_data = all_events[k]
           /\ \A i \in 1..Len(calls) :
                 /\ calls[i].client = "yandex" => calls[i].key \notin DOMAIN yandex_events
                 /\ calls[i].client = "google" => calls[i].key \notin DOMAIN google_events
           /\ Len(calls) = Cardinality(yandex_missing_keys)
                             + Cardinality(google_missing_keys)

C5_Witness ==
    /\ pc = "done"
    /\ Cardinality(google_missing_keys) = 2
    /\ Cardinality(yandex_missing_keys) = 1
    /\ DOMAIN yandex_events # {}
    /\ Len(calls) = 3

\* C6: the union holds Google's record for every key of the Google map, the
\* Yandex record for every other key, and its keys are the keys of both maps.
C6_MergePrecedence ==
    Computed
        => /\ DOMAIN all_events = (DOMAIN yandex_events) \cup (DOMAIN google_events)
           /\ \A k \in DOMAIN google_events : all_events[k] = google_events[k]
           /\ \A k \in (DOMAIN yandex_events) \ (DOMAIN google_events) :
                 all_events[k] = yandex_events[k]

C6_Witness ==
    /\ pc = "add_yandex"
    /\ \E k \in (DOMAIN yandex_events) \cap (DOMAIN google_events) :
          /\ yandex_events[k] # google_events[k]
          /\ all_events[k] = google_events[k]
    /\ (DOMAIN yandex_events) \ (DOMAIN google_events) # {}

FetchErrors == {"yandex_get_events", "google_get_events"}
AddErrors == {"yandex_add_event", "google_add_event"}

\* C7: when get_events raises on either client, sync() ends with the error,
\* no add_event call has been made in that run and neither calendar changed.
C7_FetchFailureAborts ==
    /\ [](raised \in FetchErrors => pc = "failed" /\ calls = <<>> /\ todo = {})
    /\ [][(pc' = "fetch_google" \/ raised' \in FetchErrors)
            => yandex' = yandex /\ google' = google /\ writes' = writes]_vars

C7_Witness ==
    /\ raised = "google_get_events"
    /\ pc = "failed"
    /\ DOMAIN yandex_events # {}
    /\ Len(google) > 0
    /\ calls = <<>>

\* C8: when an add_event call raises, sync() ends with the error, the raising
\* call is the last add_event call of the run, and the events written before
\* it stay in the calendars.
C8_WriteFailureAborts ==
    /\ [](raised \in AddErrors
            => /\ pc = "failed"
               /\ Len(calls) >= 1
               /\ calls[Len(calls)].client =
                     (IF raised = "yandex_add_event" THEN "yandex" ELSE "google"))
    /\ [][(raised \in AddErrors /\ runs' = runs /\ pc' = "failed")
            => calls' = calls]_vars
    /\ [][raised' \in AddErrors
            => yandex' = yandex /\ google' = google /\ writes' = writes]_vars

C8_Witness ==
    /\ raised = "google_add_event"
    /\ pc = "failed"
    /\ runs = 1
    /\ writes >= 1
    /\ todo # {}
    /\ \E i \in 1..Len(calls) : calls[i].client = "yandex"

\* C9: with non-negative past_days and future_days the floor is 00:00:00 UTC of
\* today - past_days, the ceiling is 23:59:59.999999 UTC of today + future_days,
\* the floor is not after the ceiling, zero offsets give the single day today,
\* and 2024-06-15 with 7 and 30 gives 2024-06-08T00:00:00 and
\* 2024-07-15T23:59:59.999999.
C9_TimeWindow ==
    pc # "new"
        => /\ time_limit.date = today - past_days
           /\ time_limit.time = <<0, 0, 0, 0>>
           /\ time_limit_future.date = today + future_days
           /\ time_limit_future.time = <<23, 59, 59, 999999>>
           /\ time_limit.aware /\ time_limit.off = 0
           /\ time_limit_future.aware /\ time_limit_future.off = 0
           /\ ~dt_lt(time_limit_future, time_limit)
           /\ (past_days = 0 /\ future_days = 0)
                => time_limit.date = today /\ time_limit_future.date = today
           /\ (today = ymd2ord(2024, 6, 15) /\ past_days = 7 /\ future_days = 30)
                => /\ isoformat(time_limit) =
                        [year |-> 2024, month |-> 6, day |-> 8, hour |-> 0,
                         minute |-> 0, second |-> 0, microsecond |-> 0, off |-> 0]
                   /\ isoformat(time_limit_future) =
                        [year |-> 2024, month |-> 7, day |-> 15, hour |-> 23,
                         minute |-> 59, second |-> 59, microsecond |-> 999999,
                         off |-> 0]

C9_Witness ==
    /\ pc = "idle"
    /\ today = ymd2ord(2024, 6, 15)
    /\ past_days = 7
    /\ future_days = 30
    /\ time_limit # unset_datetime

\* C10: every step of sync() leaves the events a calendar already holds in
\* place and unchanged; a calendar only ever gains events.
C10_AdditionsOnly ==
    [][IsPrefix(yandex, yandex') /\ IsPrefix(google, google')]_vars

C10_Witness ==
    /\ pc = "done"
    /\ Len(yandex) = 2
    /\ Len(google) = 3
    /\ writes = 2

\* C11 as stated: when the configured calendar name is missing on either
\* backend the construction of the manager fails, so sync() is never entered
\* and no get_events or add_event call reaches a backend.
C11_CalendarNotFoundFatal ==
    (~yandex_calname_found \/ ~google_calname_found)
        => /\ pc \in {"new", "construct_failed"}
           /\ runs = 0
           /\ calls = <<>>

\* the events a get_events call at the start of the run was given by the
\* calendar, while the calendar is as it was then
FetchedYandex == time_range(yandex, time_limit, time_limit_future)
FetchedGoogle ==
    time_range(google, isoformat_seconds(time_limit),
               isoformat_seconds(time_limit_future))

\* what the identity of an event rests on: its name and its start instant
Identity(e) == <<e.name, to_utc(e.start)>>

Identities(items) == {Identity(items[i]) : i \in 1..Len(items)}

KeysOf(events, e) ==
    {k \in DOMAIN events : k[1] = e.name /\ fromisoformat(k[2]) = to_utc(e.start)}

\* both maps are fetched and no event has been written since
JustFetched == pc = "add_yandex" /\ calls = <<>>

\* C12: each fetched record has exactly one key in its backend's map, the key
\* is made of its name and its UTC start, and the map has as many entries as
\* the fetched records have distinct (name, UTC start) pairs: records that
\* differ only in end or description share one entry, records that differ in
\* name or start have different keys.
C12_IdentityCollapsing ==
    JustFetched
        => /\ \A i \in 1..Len(FetchedYandex) :
                 Cardinality(KeysOf(yandex_events, FetchedYandex[i])) = 1
           /\ \A i \in 1..Len(FetchedGoogle) :
                 Cardinality(KeysOf(google_events, FetchedGoogle[i])) = 1
           /\ Cardinality(DOMAIN yandex_events) =
                 Cardinality(Identities(FetchedYandex))
           /\ Cardinality(DOMAIN google_events) =
                 Cardinality(Identities(FetchedGoogle))
           /\ \A k \in DOMAIN yandex_events :
                 yandex_events[k].name = k[1] /\ yandex_events[k].start = k[2]
           /\ \A k \in DOMAIN google_events :
                 google_events[k].name = k[1] /\ google_events[k].start = k[2]

C12_Witness ==
    /\ JustFetched
    /\ Len(FetchedYandex) = 3
    /\ Cardinality(DOMAIN yandex_events) = 2
    /\ \E i, j \in 1..Len(FetchedYandex) :
          /\ i # j
          /\ Identity(FetchedYandex[i]) = Identity(FetchedYandex[j])
          /\ FetchedYandex[i].start # FetchedYandex[j].start
          /\ FetchedYandex[i].end # FetchedYandex[j].end
          /\ FetchedYandex[i].description # FetchedYandex[j].description

\* C13 as stated: the window a sync() call works with is the one computed
\* from the date of that call, not a value kept from the construction of the
\* manager or from an earlier call.
C13_WindowRecomputedPerRun ==
    pc \in {"fetch_google", "add_yandex", "add_google"}
        => /\ time_limit = compute_time_limit(today, past_days)
           /\ time_limit_future = compute_time_limit_future(today, future_days)

\* C14: a run fetches Yandex, then Google, then appends to Yandex, then to
\* Google: no add_event call is made before both fetches have returned, no
\* Yandex call follows a Google call, a Google call is made only after every
\* key missing on Yandex has had its call, and the maps and missing sets are
\* those of the calendars as fetched and stay as they are while the run writes.
C14_PhaseOrdering ==
    /\ [](/\ pc = "fetch_google"
               => /\ calls = <<>>
                  /\ yandex_events = YandexGetEvents(yandex, time_limit,
                                                     time_limit_future)
                  /\ DOMAIN google_events = {}
          /\ JustFetched
               => /\ yandex_events = YandexGetEvents(yandex, time_limit,
                                                     time_limit_future)
                  /\ google_events = GoogleGetEvents(google, time_limit,
                                                     time_limit_future)
          /\ \A i, j \in 1..Len(calls) :
                i < j => ~(calls[i].client = "google" /\ calls[j].client = "yandex")
          /\ \A j \in 1..Len(calls) :
                calls[j].client = "google"
                    => \A k \in yandex_missing_keys :
                          \E i \in CallsOf("yandex", k) : i < j)
    /\ [][(Computed /\ runs' = runs /\ ~(Ended /\ pc' # pc))
            => UNCHANGED local_vars]_vars

C14_Witness ==
    /\ pc = "done"
    /\ runs = 1
    /\ Len(calls) = 3
    /\ calls[1].client = "yandex"
    /\ calls[3].client = "google"
    /\ writes >= 2
    /\ DOMAIN yandex_events # DOMAIN YandexGetEvents(yandex, time_limit,
                                                     time_limit_future)

\* C15: the two missing sets are disjoint, each is the other map's keys minus
\* the side's own, and every add_event call on a side is made with the record
\* fetched from the other side.
C15_MissingSetsDisjoint ==
    Computed
        => /\ yandex_missing_keys \cap google_missing_keys = {}
           /\ yandex_missing_keys = (DOMAIN google_events) \ (DOMAIN yandex_events)
           /\ google_missing_keys = (DOMAIN yandex_events) \ (DOMAIN google_events)
           /\ \A i \in 1..Len(calls) :
                 /\ calls[i].client = "yandex"
                      => /\ calls[i].key \in DOMAIN google_events
                         /\ calls[i].event_data = google_events[calls[i].key]
                 /\ calls[i].client = "google"
                      => /\ calls[i].key \in DOMAIN yandex_events
                         /\ calls[i].event_data = yandex_events[calls[i].key]

C15_Witness ==
    /\ pc = "done"
    /\ \E k \in (DOMAIN yandex_events) \cap (DOMAIN google_events) :
          yandex_events[k] # google_events[k]
    /\ \E i \in 1..Len(calls) : calls[i].client = "google"
    /\ google_missing_keys # {}

\* every event fetched in the current run starts inside the window
AllFetchedInWindow ==
    \A k \in DOMAIN all_events : InWindow(fromisoformat(all_events[k].start))

====
